---- MODULE Spec2Model ----
(***************************************************************************)
(* State-machine model of the Google-Drive / Polkadot dashboard            *)
(* controller (App component) and of the keystore / extrinsic library it   *)
(* drives.                                                                 *)
(*                                                                         *)
(* JavaScript values are modelled as follows:                              *)
(*   - objects are records; a property is present iff its name is in the   *)
(*     record's DOMAIN (duck typing, as JSON.parse gives it);              *)
(*   - null / undefined in a slot that otherwise holds an object is Null;  *)
(*   - a string is a tuple of atoms (themselves TLA+ strings), the empty   *)
(*     string being <<>>; concatenation is \o and slice is SubSeq;         *)
(*   - a call that may throw returns [threw |-> TRUE, error |-> msg] or    *)
(*     [threw |-> FALSE, value |-> v].                                     *)
(* A React handler reads the state of the render it was created in: each   *)
(* running handler instance carries its own snapshot (acct, tok, usr).     *)
(***************************************************************************)
EXTENDS Integers, Sequences, FiniteSets, TLC

VARIABLES
    user,               \* useState<UserInfo | null>
    accessToken,        \* useState<string | null>; 0 is null, n > 0 the n-th token
    driveFiles,         \* useState<DriveFile[]>: the listed files
    loadingFiles,       \* useState(false)
    generatedAccount,   \* useState<SubstrateAccount | null>
    isGeneratingKeys,   \* busy flag of Generate
    isSavingKeys,       \* busy flag of Persist
    isFetchingKeys,     \* busy flag of Retrieve
    isSendingExtrinsic, \* busy flag of the test-transaction workflow
    extrinsicResult,    \* useState<ExtrinsicResult | null>
    drive,              \* the remote file store, most recently modified first
    login,              \* googleLogin onSuccess callbacks in flight
    refresh,            \* fetchDriveFiles calls nobody awaits (started by a login)
    gen,                \* handleGenerateKeys instances
    save,               \* handleSaveKeys instances
    fetch,              \* handleFetchKeys instances
    send,               \* handleTestExtrinsic instances
    ex,                 \* one run of exampleSendTransactionFromKeystore
    clicks,             \* number of user actions so far (also the clock)
    loadedFrom          \* history: id of the file generatedAccount was parsed from, 0 if none

vars == <<user, accessToken, driveFiles, loadingFiles, generatedAccount,
          isGeneratingKeys, isSavingKeys, isFetchingKeys, isSendingExtrinsic,
          extrinsicResult, drive, login, refresh, gen, save, fetch, send, ex, clicks, loadedFrom>>

appVars == <<user, accessToken, driveFiles, loadingFiles, generatedAccount,
             isGeneratingKeys, isSavingKeys, isFetchingKeys, isSendingExtrinsic,
             extrinsicResult, drive, login, refresh, gen, save, fetch, send, clicks, loadedFrom>>

-----------------------------------------------------------------------------
(* Bounds *)

MaxClicks == 4      \* user actions (clicks, consent dialogs) in one page load, KeysSpec
MaxTxClicks == 3    \* the same, TxSpec
MaxAllClicks == 3   \* the same, Spec
MaxAcctClicks == 4  \* the same, AccountSpec
MaxInFlight == 2    \* handler instances of one kind that may overlap
NumSeeds == 2       \* distinct mnemonics the generator may draw
MaxEvents == 2      \* events carried by one status update
MaxUpdates == 2     \* status updates delivered for one submitted transfer

Inst == 1..MaxInFlight
Seeds == 1..NumSeeds

-----------------------------------------------------------------------------
(* Values *)

Null == [null |-> TRUE]
EmptyString == << >>

\* undefined in a slot that otherwise holds a string
Undefined == <<"undefined">>

Has(o, f) == f \in DOMAIN o

Threw(msg) == [threw |-> TRUE, error |-> msg]
Returned(v) == [threw |-> FALSE, value |-> v]

-----------------------------------------------------------------------------
(* Strings *)

Min(a, b) == IF a < b THEN a ELSE b

\* String.prototype.slice(0, n)
Slice(str, n) == SubSeq(str, 1, Min(n, Len(str)))

\* the Drive query operator "name contains 'pat'"
Contains(str, pat) == \E i \in DOMAIN str : str[i] = pat

AppPassword == <<"myStr0ngP@ssworD">>
ForeignPassword == <<"an0therP@ssword">>
Passwords == {AppPassword, ForeignPassword}

\* the password handleGenerateKeys encrypts with
GeneratePassword == AppPassword

\* a workflow password that is not the one Generate encrypts with
SubmitPasswordWrong == ForeignPassword

\* the password handleTestExtrinsic decrypts with
SubmitPassword == AppPassword

-----------------------------------------------------------------------------
(* @polkadot/keyring and @polkadot/util-crypto, as the library code uses    *)
(* them.  A key pair is identified by its seed; the encrypted blob of a     *)
(* keystore records the secret and the password that opens it.              *)

\* mnemonicGenerate(12): the phrase of seed s
Mnemonic(s) == <<"phrase", ToString(s)>>

\* pair.address in ss58 format 355: the seed decides the third character
Address(s) == <<"g", "6", ToString(s), "C", "5", "X", "M", "b", "P", "A">>

\* u8aToHex(pair.publicKey)
PublicKey(s) == <<"0x", "pub", ToString(s)>>

\* keyring.toJson(pair.address, password) for the pair added from seed s
KeyringToJson(s, name, password) ==
    [ address  |-> Address(s),
      encoded  |-> [secret |-> s, key |-> password],
      encoding |-> [content |-> <<"pkcs8", "sr25519">>,
                    type |-> <<"scrypt", "xsalsa20-poly1305">>,
                    version |-> <<"3">>],
      meta     |-> [name |-> name, created |-> <<"iso">>] ]

\* keyring.addFromJson(json): destructures address, encoded and encoding
AddFromJson(json) ==
    IF json = Null \/ ~Has(json, "encoding") \/ ~Has(json, "encoded")
                   \/ ~Has(json, "address")
    THEN Threw(<<"Cannot destructure keystore">>)
    ELSE Returned([address |-> json.address, encoded |-> json.encoded,
                   isLocked |-> TRUE])

\* pair.decodePkcs8(password): opens the blob, the pair takes the decoded key
DecodePkcs8(pair, password) ==
    IF pair.encoded.key = password
    THEN Returned([pair EXCEPT !.isLocked = FALSE,
                               !.address = Address(pair.encoded.secret)])
    ELSE Threw(<<"Unable to decode using the supplied passphrase">>)

-----------------------------------------------------------------------------
(* lib/polkadot.ts *)

generateSubstrateAccount(s, accountName, password) ==
    [ mnemonic     |-> Mnemonic(s),
      address      |-> Address(s),
      publicKey    |-> PublicKey(s),
      keystoreJson |-> KeyringToJson(s, accountName, password),
      meta         |-> [name |-> accountName, created |-> <<"iso">>] ]

\* JSON text: a serialised value, or text that is no JSON
JsonStringify(v) ==
    IF v = Null THEN [text |-> "undefined"] ELSE [text |-> "json", value |-> v]

JsonParse(str) ==
    IF str.text = "json" THEN Returned(str.value)
    ELSE Threw(<<"Unexpected token">>)

accountToPolkadotJsonWhole(account) == JsonStringify(account)

accountToPolkadotJson(account) ==
    JsonStringify(IF Has(account, "keystoreJson") THEN account.keystoreJson ELSE Null)

\* keystoreJson.meta?.whenCreated ? new Date(whenCreated).toISOString() : new Date().toISOString()
CreatedOf(keystoreJson) ==
    IF Has(keystoreJson, "meta") /\ Has(keystoreJson.meta, "whenCreated")
    THEN IF keystoreJson.meta.whenCreated = <<"invalid">>
         THEN Threw(<<"Invalid time value">>)
         ELSE Returned(<<"iso">>)
    ELSE Returned(<<"iso">>)

accountFromPolkadotJson(keystoreJsonString) ==
    LET parsed == JsonParse(keystoreJsonString) IN
    IF parsed.threw THEN parsed
    ELSE LET keystoreJson == parsed.value
             created == CreatedOf(keystoreJson) IN
         IF created.threw THEN created
         ELSE Returned(
            [ mnemonic     |-> EmptyString,
              address      |-> IF Has(keystoreJson, "address")
                               THEN keystoreJson.address ELSE Undefined,
              publicKey    |-> EmptyString,
              keystoreJson |-> keystoreJson,
              meta         |-> [name |-> IF Has(keystoreJson, "meta")
                                              /\ Has(keystoreJson.meta, "name")
                                           THEN keystoreJson.meta.name
                                           ELSE <<"Imported Account">>,
                                created |-> created.value] ])

-----------------------------------------------------------------------------
(* lib/polkadotExtrinsics.ts *)

loadAccountFromKeystoreNoUnlock(keystoreJson, password) ==
    LET added == AddFromJson(keystoreJson) IN
    IF added.threw THEN added ELSE Returned(added.value)

loadAccountFromKeystore(keystoreJson, password) ==
    LET added == AddFromJson(keystoreJson) IN
    LET Wrap(e) == Threw(<<"Failed to load account from keystore: ">> \o e) IN
    IF added.threw THEN Wrap(added.error)
    ELSE LET decoded == DecodePkcs8(added.value, password) IN
         IF decoded.threw THEN Wrap(decoded.error)
         ELSE IF decoded.value.isLocked
              THEN Wrap(<<"Account is still locked after password attempt">>)
              ELSE Returned(decoded.value)

-----------------------------------------------------------------------------
(* The remote file store (Google Drive REST API) *)

UserName == <<"Ada">>
AccountName == UserName \o <<" Polkadot Account">>

JsonMime == "application/json"

KeystorePattern == <<"polkadot-keystore">>
AccountPattern == <<"polkadot-account">>

\* `polkadot-keystore-${address.slice(0, 8)}-${Date.now()}.json`
KeystoreFileName(address, now) ==
    KeystorePattern \o <<"-">> \o Slice(address, 8) \o <<"-", ToString(now), ".json">>

RemoteFile(id, name, content, by, from) ==
    [id |-> id, name |-> name, mimeType |-> JsonMime, content |-> content,
     by |-> by, from |-> from]

\* files a Drive may hold at page load: written by this application, by its
\* older plaintext format (serializeAccount), exported by another wallet
\* under another password, or damaged
OwnKeystoreFile(id, s) ==
    RemoteFile(id, KeystoreFileName(Address(s), 0),
               JsonStringify(KeyringToJson(s, AccountName, AppPassword)), "user", Null)

ForeignKeystoreFile(id, s) ==
    RemoteFile(id, KeystoreFileName(Address(s), 0),
               JsonStringify([KeyringToJson(s, AccountName, ForeignPassword) EXCEPT
                                !.meta = [name |-> AccountName,
                                          whenCreated |-> <<"1700000000000">>]]),
               "user", Null)

LegacyFile(id, s) ==
    RemoteFile(id, AccountPattern \o <<"-", ToString(s), ".json">>,
               JsonStringify(generateSubstrateAccount(s, AccountName, AppPassword)),
               "user", Null)

LegacyBadDateFile(id, s) ==
    RemoteFile(id, AccountPattern \o <<"-", ToString(s), ".json">>,
               JsonStringify([generateSubstrateAccount(s, AccountName, AppPassword) EXCEPT
                                !.meta = [name |-> AccountName, created |-> <<"iso">>,
                                          whenCreated |-> <<"invalid">>]]),
               "user", Null)

\* a plaintext account file without a keystore, which only the fallback
\* parse accepts
LegacyNoKeystoreFile(id, s) ==
    RemoteFile(id, AccountPattern \o <<"-", ToString(s), ".json">>,
               JsonStringify([mnemonic  |-> Mnemonic(s),
                              address   |-> Address(s),
                              publicKey |-> PublicKey(s),
                              meta      |-> [name |-> AccountName, created |-> <<"iso">>,
                                             whenCreated |-> <<"invalid">>]]),
               "user", Null)

DamagedFile(id) ==
    RemoteFile(id, KeystoreFileName(Address(1), 0), [text |-> "garbage"], "user", Null)

InitialDrives ==
    { << >>,
      << LegacyFile(1, 1) >>,
      << ForeignKeystoreFile(1, 1) >>,
      << DamagedFile(1) >>,
      << OwnKeystoreFile(2, 2), LegacyFile(1, 1) >>,
      << LegacyBadDateFile(1, 1) >>,
      << LegacyNoKeystoreFile(1, 1) >> }

Take(seq, n) == SubSeq(seq, 1, Min(n, Len(seq)))

Meta(f) == [id |-> f.id, name |-> f.name, mimeType |-> f.mimeType]

MetaList(files) == [i \in DOMAIN files |-> Meta(files[i])]

\* q of files.list: << >> is no query, otherwise
\* "name contains '<pattern>' and mimeType='application/json'"
Matches(f, query) ==
    query = << >> \/ (Contains(f.name, query[1]) /\ f.mimeType = JsonMime)

\* files.list with orderBy 'modifiedTime desc' and the given pageSize
ListFiles(store, pageSize, query) ==
    LET Test(f) == Matches(f, query) IN
    [files |-> MetaList(Take(SelectSeq(store, Test), pageSize))]

FileById(store, id) ==
    LET Test(f) == f.id = id IN SelectSeq(store, Test)

NextFileId(store) ==
    1 + Len(store)

\* the multipart upload creates a new file, the most recently modified one
Upload(store, name, content, by, from) ==
    << RemoteFile(NextFileId(store), name, content, by, from) >> \o store

ListPageSize == 5
SearchPageSize == 10

-----------------------------------------------------------------------------
(* Handler instances.  The handlers hold no lock of their own: a click the  *)
(* rendered control admits starts a new instance, whatever is in flight.    *)

HasFree(f) == \E i \in Inst : f[i].pc = "idle"

FreeInst(f) ==
    CHOOSE i \in Inst : f[i].pc = "idle" /\ \A j \in Inst : j < i => f[j].pc # "idle"

InFlight(f) == {i \in Inst : f[i].pc # "idle"}

IdleLogin == [pc |-> "idle", tok |-> 0]
IdleRefresh == [pc |-> "idle", tok |-> 0]
\* outcome: how the last run of this instance ended ("pending" while it runs)
IdleGen == [pc |-> "idle", usr |-> Null, outcome |-> "none"]

-----------------------------------------------------------------------------
(* What the rendered page lets the user click *)

\* {!user ? <LoginSection/> : <div> ...sections... </div>}
LoginSectionRendered == user = Null

SectionsRendered == user # Null

GenerateButtonEnabledNoFlag == ~(user = Null)

GenerateButtonEnabled == ~(user = Null \/ isGeneratingKeys)

SaveButtonEnabled == ~(accessToken = 0 \/ generatedAccount = Null \/ isSavingKeys)

FetchButtonEnabled == ~(accessToken = 0 \/ isFetchingKeys)

TestButtonEnabled == ~(generatedAccount = Null \/ isSendingExtrinsic)

-----------------------------------------------------------------------------
(* Session: googleLogin, fetchDriveFiles, handleLogout *)

\* the consent flow ends in onSuccess(tokenResponse): the token is stored and
\* the userinfo lookup is awaited
GoogleLoginSuccess(budget) ==
    /\ LoginSectionRendered
    /\ clicks < budget
    /\ HasFree(login)
    /\ clicks' = clicks + 1
    /\ accessToken' = clicks + 1
    /\ login' = [login EXCEPT ![FreeInst(login)] = [pc |-> "userinfo", tok |-> clicks + 1]]
    /\ UNCHANGED <<user, driveFiles, loadingFiles, generatedAccount, isGeneratingKeys,
                   isSavingKeys, isFetchingKeys, isSendingExtrinsic, extrinsicResult,
                   drive, refresh, gen, save, fetch, send, ex, loadedFrom>>

\* the consent flow ends in onError: only a log line
GoogleLoginError(budget) ==
    /\ LoginSectionRendered
    /\ clicks < budget
    /\ clicks' = clicks + 1
    /\ UNCHANGED <<user, accessToken, driveFiles, loadingFiles, generatedAccount,
                   isGeneratingKeys, isSavingKeys, isFetchingKeys, isSendingExtrinsic,
                   extrinsicResult, drive, login, refresh, gen, save, fetch, send, ex,
                   loadedFrom>>

\* userinfo answered: setUser, then fetchDriveFiles(token) is started, not awaited
UserInfoOk(i) ==
    /\ login[i].pc = "userinfo"
    /\ HasFree(refresh)
    /\ user' = [name |-> UserName]
    /\ loadingFiles' = TRUE
    /\ refresh' = [refresh EXCEPT ![FreeInst(refresh)] =
                      [pc |-> "listing", tok |-> login[i].tok]]
    /\ login' = [login EXCEPT ![i] = IdleLogin]
    /\ UNCHANGED <<accessToken, driveFiles, generatedAccount, isGeneratingKeys,
                   isSavingKeys, isFetchingKeys, isSendingExtrinsic, extrinsicResult,
                   drive, gen, save, fetch, send, ex, clicks, loadedFrom>>

\* the lookup (or reading its body) failed: the catch only logs
UserInfoFail(i) ==
    /\ login[i].pc = "userinfo"
    /\ login' = [login EXCEPT ![i] = IdleLogin]
    /\ UNCHANGED <<user, accessToken, driveFiles, loadingFiles, generatedAccount,
                   isGeneratingKeys, isSavingKeys, isFetchingKeys, isSendingExtrinsic,
                   extrinsicResult, drive, refresh, gen, save, fetch, send, ex, clicks,
                   loadedFrom>>

\* fetchDriveFiles: the list arrived
RefreshOk(i) ==
    /\ refresh[i].pc = "listing"
    /\ driveFiles' = ListFiles(drive, ListPageSize, << >>).files
    /\ loadingFiles' = FALSE
    /\ refresh' = [refresh EXCEPT ![i] = IdleRefresh]
    /\ UNCHANGED <<user, accessToken, generatedAccount, isGeneratingKeys, isSavingKeys,
                   isFetchingKeys, isSendingExtrinsic, extrinsicResult, drive, login,
                   gen, save, fetch, send, ex, clicks, loadedFrom>>

\* fetchDriveFiles: the list request failed
RefreshFail(i) ==
    /\ refresh[i].pc = "listing"
    /\ loadingFiles' = FALSE
    /\ refresh' = [refresh EXCEPT ![i] = IdleRefresh]
    /\ UNCHANGED <<user, accessToken, driveFiles, generatedAccount, isGeneratingKeys,
                   isSavingKeys, isFetchingKeys, isSendingExtrinsic, extrinsicResult,
                   drive, login, gen, save, fetch, send, ex, clicks, loadedFrom>>

\* a logout that also forgets the last transaction result
handleLogoutClearsResult(budget) ==
    /\ user # Null
    /\ clicks < budget
    /\ clicks' = clicks + 1
    /\ user' = Null
    /\ accessToken' = 0
    /\ driveFiles' = << >>
    /\ extrinsicResult' = Null
    /\ UNCHANGED <<loadingFiles, generatedAccount, isGeneratingKeys, isSavingKeys,
                   isFetchingKeys, isSendingExtrinsic, drive, login,
                   refresh, gen, save, fetch, send, ex, loadedFrom>>

handleLogout(budget) ==
    /\ user # Null
    /\ clicks < budget
    /\ clicks' = clicks + 1
    /\ user' = Null
    /\ accessToken' = 0
    /\ driveFiles' = << >>
    /\ UNCHANGED <<loadingFiles, generatedAccount, isGeneratingKeys, isSavingKeys,
                   isFetchingKeys, isSendingExtrinsic, extrinsicResult, drive, login,
                   refresh, gen, save, fetch, send, ex, loadedFrom>>

-----------------------------------------------------------------------------
(* Generate: handleGenerateKeys *)

ClickGenerate(budget) ==
    /\ SectionsRendered
    /\ GenerateButtonEnabled
    /\ clicks < budget
    /\ HasFree(gen)
    /\ clicks' = clicks + 1
    /\ IF user = Null
       THEN UNCHANGED <<isGeneratingKeys, gen>>
       ELSE /\ isGeneratingKeys' = TRUE
            /\ gen' = [gen EXCEPT ![FreeInst(gen)] = [pc |-> "generating", usr |-> user,
                                                       outcome |-> "pending"]]
    /\ UNCHANGED <<user, accessToken, driveFiles, loadingFiles, generatedAccount,
                   isSavingKeys, isFetchingKeys, isSendingExtrinsic, extrinsicResult,
                   drive, login, refresh, save, fetch, send, ex, loadedFrom>>

GenerateOk(i) ==
    /\ gen[i].pc = "generating"
    /\ \E s \in Seeds :
          generatedAccount' =
              generateSubstrateAccount(s, gen[i].usr.name \o <<" Polkadot Account">>,
                                       GeneratePassword)
    /\ loadedFrom' = 0
    /\ isGeneratingKeys' = FALSE
    /\ gen' = [gen EXCEPT ![i] = [IdleGen EXCEPT !.outcome = "generated"]]
    /\ UNCHANGED <<user, accessToken, driveFiles, loadingFiles, isSavingKeys,
                   isFetchingKeys, isSendingExtrinsic, extrinsicResult, drive, login,
                   refresh, save, fetch, send, ex, clicks>>

\* a failed Generate that also drops the account it had
GenerateFailClearsAccount(i) ==
    /\ gen[i].pc = "generating"
    /\ isGeneratingKeys' = FALSE
    /\ generatedAccount' = Null
    /\ gen' = [gen EXCEPT ![i] = [IdleGen EXCEPT !.outcome = "failed"]]
    /\ UNCHANGED <<user, accessToken, driveFiles, loadingFiles,
                   isSavingKeys, isFetchingKeys, isSendingExtrinsic, extrinsicResult,
                   drive, login, refresh, save, fetch, send, ex, clicks, loadedFrom>>

\* generateSubstrateAccount rejected: catch, finally
GenerateFail(i) ==
    /\ gen[i].pc = "generating"
    /\ isGeneratingKeys' = FALSE
    /\ gen' = [gen EXCEPT ![i] = [IdleGen EXCEPT !.outcome = "failed"]]
    /\ UNCHANGED <<user, accessToken, driveFiles, loadingFiles, generatedAccount,
                   isSavingKeys, isFetchingKeys, isSendingExtrinsic, extrinsicResult,
                   drive, login, refresh, save, fetch, send, ex, clicks, loadedFrom>>

-----------------------------------------------------------------------------
(* Persist: handleSaveKeys *)

\* refreshes: calls of fetchDriveFiles made by the last run of this instance;
\* outcome: how that run ended ("pending" while it runs)
IdleSave == [pc |-> "idle", acct |-> Null, tok |-> 0, fileName |-> << >>,
             content |-> [text |-> "undefined"], refreshes |-> 0,
             outcome |-> "none", replaced |-> FALSE]

ClickSave(budget) ==
    /\ SectionsRendered
    /\ SaveButtonEnabled
    /\ clicks < budget
    /\ HasFree(save)
    /\ clicks' = clicks + 1
    /\ IF generatedAccount = Null \/ accessToken = 0
       THEN UNCHANGED <<isSavingKeys, save>>
       ELSE /\ isSavingKeys' = TRUE
            /\ save' = [save EXCEPT ![FreeInst(save)] =
                          [pc |-> "uploading",
                           acct |-> generatedAccount,
                           tok |-> accessToken,
                           fileName |-> KeystoreFileName(generatedAccount.address, clicks + 1),
                           content |-> accountToPolkadotJson(generatedAccount),
                           refreshes |-> 0,
                           outcome |-> "pending",
                           replaced |-> FALSE]]
    /\ UNCHANGED <<user, accessToken, driveFiles, loadingFiles, generatedAccount,
                   isGeneratingKeys, isFetchingKeys, isSendingExtrinsic, extrinsicResult,
                   drive, login, refresh, gen, fetch, send, ex, loadedFrom>>

\* how a run of Persist ends: finally
SaveEnds(i, outcome) ==
    /\ isSavingKeys' = FALSE
    /\ save' = [save EXCEPT ![i] = [IdleSave EXCEPT !.outcome = outcome,
                                                    !.refreshes = save[i].refreshes]]

\* a Persist that reports success without refreshing the list
SaveUploadOkNoRefresh(i) ==
    /\ save[i].pc = "uploading"
    /\ drive' = Upload(drive, save[i].fileName, save[i].content, "persist", save[i].acct)
    /\ SaveEnds(i, "saved")
    /\ UNCHANGED <<user, accessToken, driveFiles, generatedAccount, isGeneratingKeys,
                   loadingFiles, isFetchingKeys, isSendingExtrinsic, extrinsicResult,
                   login, refresh, gen, fetch, send, ex, clicks, loadedFrom>>

\* a Persist that builds the file name and the content when the upload is
\* sent, from the account the page then holds
SaveUploadOkCurrentAccount(i) ==
    /\ save[i].pc = "uploading"
    /\ drive' = Upload(drive, KeystoreFileName(generatedAccount.address, clicks),
                       accountToPolkadotJson(generatedAccount), "persist", save[i].acct)
    /\ loadingFiles' = TRUE
    /\ save' = [save EXCEPT ![i].pc = "refreshing", ![i].refreshes = @ + 1,
                            ![i].replaced = (generatedAccount # save[i].acct)]
    /\ UNCHANGED <<user, accessToken, driveFiles, generatedAccount, isGeneratingKeys,
                   isSavingKeys, isFetchingKeys, isSendingExtrinsic, extrinsicResult,
                   login, refresh, gen, fetch, send, ex, clicks, loadedFrom>>

\* uploadFileToDrive resolved (status 200); fetchDriveFiles(accessToken) is awaited next
\* (replaced: the page held another account than the run's when the upload resolved)
SaveUploadOk(i) ==
    /\ save[i].pc = "uploading"
    /\ drive' = Upload(drive, save[i].fileName, save[i].content, "persist", save[i].acct)
    /\ loadingFiles' = TRUE
    /\ save' = [save EXCEPT ![i].pc = "refreshing", ![i].refreshes = @ + 1,
                            ![i].replaced = (generatedAccount # save[i].acct)]
    /\ UNCHANGED <<user, accessToken, driveFiles, generatedAccount, isGeneratingKeys,
                   isSavingKeys, isFetchingKeys, isSendingExtrinsic, extrinsicResult,
                   login, refresh, gen, fetch, send, ex, clicks, loadedFrom>>

\* uploadFileToDrive rejected (other status, network error): catch, finally
SaveUploadFail(i) ==
    /\ save[i].pc = "uploading"
    /\ SaveEnds(i, "failed")
    /\ UNCHANGED <<user, accessToken, driveFiles, loadingFiles, generatedAccount,
                   isGeneratingKeys, isFetchingKeys, isSendingExtrinsic, extrinsicResult,
                   drive, login, refresh, gen, fetch, send, ex, clicks, loadedFrom>>

\* the awaited fetchDriveFiles listed the files; finally
SaveRefreshOk(i) ==
    /\ save[i].pc = "refreshing"
    /\ driveFiles' = ListFiles(drive, ListPageSize, << >>).files
    /\ loadingFiles' = FALSE
    /\ SaveEnds(i, "saved")
    /\ UNCHANGED <<user, accessToken, generatedAccount, isGeneratingKeys, isFetchingKeys,
                   isSendingExtrinsic, extrinsicResult, drive, login, refresh, gen, fetch,
                   send, ex, clicks, loadedFrom>>

\* the awaited fetchDriveFiles failed and caught its own error; finally
SaveRefreshFail(i) ==
    /\ save[i].pc = "refreshing"
    /\ loadingFiles' = FALSE
    /\ SaveEnds(i, "saved")
    /\ UNCHANGED <<user, accessToken, driveFiles, generatedAccount, isGeneratingKeys,
                   isFetchingKeys, isSendingExtrinsic, extrinsicResult, drive, login,
                   refresh, gen, fetch, send, ex, clicks, loadedFrom>>

-----------------------------------------------------------------------------
(* Retrieve: handleFetchKeys *)

\* searches: the queries issued so far; found: the result of the last search;
\* firstFound: the result of the first search; downloads: download requests
\* issued; answers: searches answered; outcome: how the last run of this
\* instance ended ("pending" while it runs); format: the parse that produced
\* the account; warned: the plaintext-mnemonic warning was shown
IdleFetch == [pc |-> "idle", tok |-> 0, searches |-> << >>, firstFound |-> << >>,
              found |-> << >>, file |-> Null, downloads |-> 0, answers |-> 0,
              outcome |-> "none", format |-> "none", warned |-> FALSE]

\* the inner try / catch that turns the downloaded text into an account
parseDownloaded(keystoreJsonString) ==
    LET current == accountFromPolkadotJson(keystoreJsonString) IN
    IF ~current.threw /\ current.value.address # Undefined
    THEN [threw |-> FALSE, value |-> current.value, format |-> "keystore",
          warned |-> FALSE]
    ELSE LET old == JsonParse(keystoreJsonString) IN
         IF old.threw THEN old
         ELSE IF ~Has(old.value, "address") \/ ~Has(old.value, "meta")
              THEN Threw(<<"Cannot read properties of undefined">>)
              ELSE [threw |-> FALSE, value |-> old.value, format |-> "legacy",
                    warned |-> Has(old.value, "mnemonic")
                               /\ old.value.mnemonic # EmptyString]

ClickFetch(budget) ==
    /\ SectionsRendered
    /\ FetchButtonEnabled
    /\ clicks < budget
    /\ HasFree(fetch)
    /\ clicks' = clicks + 1
    /\ IF accessToken = 0
       THEN UNCHANGED <<isFetchingKeys, fetch>>
       ELSE /\ isFetchingKeys' = TRUE
            /\ fetch' = [fetch EXCEPT ![FreeInst(fetch)] =
                           [IdleFetch EXCEPT !.pc = "search1", !.tok = accessToken,
                                             !.searches = <<KeystorePattern>>,
                                             !.outcome = "pending"]]
    /\ UNCHANGED <<user, accessToken, driveFiles, loadingFiles, generatedAccount,
                   isGeneratingKeys, isSavingKeys, isSendingExtrinsic, extrinsicResult,
                   drive, login, refresh, gen, save, send, ex, loadedFrom>>

\* a run of the handler ends: finally { setIsFetchingKeys(false) }
FetchEnds(i, outcome) ==
    /\ isFetchingKeys' = FALSE
    /\ fetch' = [fetch EXCEPT ![i].pc = "idle", ![i].outcome = outcome]

\* the download of searchResults.files[0] is requested
FetchDownloads(i, results) ==
    fetch' = [fetch EXCEPT ![i].pc = "downloading", ![i].found = results.files,
                           ![i].firstFound = IF fetch[i].pc = "search1"
                                             THEN results.files ELSE @,
                           ![i].file = results.files[1],
                           ![i].answers = @ + 1,
                           ![i].downloads = @ + 1]

FetchUnchanged ==
    UNCHANGED <<user, accessToken, driveFiles, loadingFiles, isGeneratingKeys,
                isSavingKeys, isSendingExtrinsic, extrinsicResult, drive, login,
                refresh, gen, save, send, ex, clicks>>

\* a Retrieve that issues the 'polkadot-account' search whatever the first
\* search returned
FetchSearch1OkAlwaysBoth(i) ==
    /\ fetch[i].pc = "search1"
    /\ LET results == ListFiles(drive, SearchPageSize, KeystorePattern) IN
       fetch' = [fetch EXCEPT ![i].pc = "search2",
                              ![i].firstFound = results.files,
                              ![i].found = results.files,
                              ![i].answers = @ + 1,
                              ![i].searches = Append(@, AccountPattern)]
    /\ UNCHANGED <<isFetchingKeys, generatedAccount, loadedFrom>>
    /\ FetchUnchanged

\* the 'polkadot-keystore' search answered
FetchSearch1Ok(i) ==
    /\ fetch[i].pc = "search1"
    /\ LET results == ListFiles(drive, SearchPageSize, KeystorePattern) IN
       IF Len(results.files) = 0
       THEN /\ fetch' = [fetch EXCEPT ![i].pc = "search2",
                                      ![i].firstFound = results.files,
                                      ![i].found = results.files,
                                      ![i].answers = @ + 1,
                                      ![i].searches = Append(@, AccountPattern)]
            /\ UNCHANGED isFetchingKeys
       ELSE FetchDownloads(i, results) /\ UNCHANGED isFetchingKeys
    /\ UNCHANGED <<generatedAccount, loadedFrom>>
    /\ FetchUnchanged

\* a Retrieve without the check of searchResults.files.length: files[0] is
\* undefined and reading its id throws into the outer catch
FetchSearch2OkUnguarded(i) ==
    /\ fetch[i].pc = "search2"
    /\ LET results == ListFiles(drive, SearchPageSize, AccountPattern) IN
       IF Len(results.files) = 0
       THEN /\ isFetchingKeys' = FALSE
            /\ fetch' = [fetch EXCEPT ![i].pc = "idle", ![i].outcome = "failed",
                                      ![i].found = results.files,
                                      ![i].answers = @ + 1]
       ELSE FetchDownloads(i, results) /\ UNCHANGED isFetchingKeys
    /\ UNCHANGED <<generatedAccount, loadedFrom>>
    /\ FetchUnchanged

\* the 'polkadot-account' search answered
FetchSearch2Ok(i) ==
    /\ fetch[i].pc = "search2"
    /\ LET results == ListFiles(drive, SearchPageSize, AccountPattern) IN
       IF Len(results.files) = 0
       THEN /\ isFetchingKeys' = FALSE
            /\ fetch' = [fetch EXCEPT ![i].pc = "idle", ![i].outcome = "notfound",
                                      ![i].found = results.files,
                                      ![i].answers = @ + 1]
       ELSE FetchDownloads(i, results) /\ UNCHANGED isFetchingKeys
    /\ UNCHANGED <<generatedAccount, loadedFrom>>
    /\ FetchUnchanged

\* a search or the download failed: the outer catch
FetchRequestFail(i) ==
    /\ fetch[i].pc \in {"search1", "search2", "downloading"}
    /\ FetchEnds(i, "failed")
    /\ UNCHANGED <<generatedAccount, loadedFrom>>
    /\ FetchUnchanged

\* the download answered with the file's text
FetchDownloadOk(i) ==
    /\ fetch[i].pc = "downloading"
    /\ LET stored == FileById(drive, fetch[i].file.id) IN
       /\ Len(stored) = 1
       /\ LET parsed == parseDownloaded(stored[1].content) IN
          IF parsed.threw
          THEN /\ FetchEnds(i, "failed")
               /\ UNCHANGED <<generatedAccount, loadedFrom>>
          ELSE /\ generatedAccount' = parsed.value
               /\ loadedFrom' = fetch[i].file.id
               /\ isFetchingKeys' = FALSE
               /\ fetch' = [fetch EXCEPT ![i].pc = "idle", ![i].outcome = "loaded",
                                         ![i].format = parsed.format,
                                         ![i].warned = parsed.warned]
    /\ FetchUnchanged

-----------------------------------------------------------------------------
(* The chain client (@polkadot/api) as sendBalanceTransfer sees it *)

\* Hash.toHex()
ToHex(bytes) == <<"0x">> \o bytes

TransferHash == <<"7a", "11">>
BlockHashes == { <<"b1", "0c">> }

\* the events of a status update, n of them
ChainEvents(n) ==
    [j \in 1..n |-> [event |-> [section |-> <<"balances">>, method |-> <<"Transfer">>,
                                data |-> j]]]

\* a status update handed to the signAndSend callback
StatusUpdates ==
    [ isInBlock : BOOLEAN, dispatchError : {"none", "module", "other"},
      events : {ChainEvents(n) : n \in 0..MaxEvents}, block : BlockHashes ]

\* api.registry.findMetaError(dispatchError.asModule)
FindMetaError == [section |-> <<"balances">>, name |-> <<"InsufficientBalance">>,
                  docs |-> <<"Balance too low to send value.">>]

\* a map that loses the last event
MapEventsDropsLast(events) ==
    [j \in 1..(Len(events) - 1) |-> [section |-> events[j].event.section,
                                     method |-> events[j].event.method,
                                     data |-> <<ToString(events[j].event.data)>>]]

\* events.map(({ event }) => ({ section, method, data: event.data.toString() }))
MapEvents(events) ==
    [j \in DOMAIN events |-> [section |-> events[j].event.section,
                              method |-> events[j].event.method,
                              data |-> <<ToString(events[j].event.data)>>]]

Failure(message) == [success |-> FALSE, error |-> message]

\* a callback that looks at the inclusion before the dispatch error
ResolutionOfInBlockFirst(u) ==
    IF u.isInBlock
    THEN [success |-> TRUE, hash |-> ToHex(TransferHash),
          blockHash |-> ToHex(u.block), events |-> MapEvents(u.events)]
    ELSE IF u.dispatchError # "none"
         THEN Failure(IF u.dispatchError = "module"
                      THEN FindMetaError.section \o <<".">> \o FindMetaError.name
                           \o <<": ">> \o FindMetaError.docs
                      ELSE <<"BadOrigin">>)
         ELSE Null

\* what the signAndSend callback resolves the promise with for update u; Null
\* when it resolves nothing
ResolutionOf(u) ==
    IF u.dispatchError # "none"
    THEN Failure(IF u.dispatchError = "module"
                 THEN FindMetaError.section \o <<".">> \o FindMetaError.name
                      \o <<": ">> \o FindMetaError.docs
                 ELSE <<"BadOrigin">>)
    ELSE IF u.isInBlock
         THEN [success |-> TRUE, hash |-> ToHex(TransferHash),
               blockHash |-> ToHex(u.block), events |-> MapEvents(u.events)]
         ELSE Null

-----------------------------------------------------------------------------
(* The test-transaction workflow: handleTestExtrinsic *)

\* api: 0, or the connection initializePolkadotApi returned; connects, loads,
\* balances, submits, disconnects: adapter calls issued by this run; updates:
\* status updates delivered; settled: the sendBalanceTransfer promise has
\* resolved; reported: the events of the update that resolved it; cause: why
\* the run failed, "none" if it did not; phase: "none", "running", "ended"
IdleSend == [pc |-> "idle", acct |-> Null, api |-> 0, pair |-> Null, connects |-> 0,
             loads |-> 0, balances |-> 0, submits |-> 0, disconnects |-> 0,
             updates |-> 0, settled |-> FALSE, result |-> Null, reported |-> 0,
             free |-> <<"unknown">>, advised |-> FALSE, cause |-> "none",
             phase |-> "none", sets |-> 0, last |-> Null, late |-> 0]

\* the record a finished run leaves behind: which adapter calls it issued,
\* whether it held a connection, why it failed, and how many times it called
\* setExtrinsicResult with a result (sets)
Ended(r) ==
    [IdleSend EXCEPT !.phase = "ended", !.api = r.api, !.cause = r.cause,
                     !.connects = r.connects, !.loads = r.loads,
                     !.balances = r.balances, !.submits = r.submits,
                     !.disconnects = r.disconnects, !.result = r.result,
                     !.reported = r.reported, !.sets = r.sets,
                     !.free = r.free, !.advised = r.advised]

HasNoKeystore(account) ==
    ~Has(account, "keystoreJson") \/ account.keystoreJson = Null

SendUnchanged ==
    UNCHANGED <<user, accessToken, driveFiles, loadingFiles, generatedAccount,
                isGeneratingKeys, isSavingKeys, isFetchingKeys, drive, login,
                refresh, gen, save, fetch, ex, clicks, loadedFrom>>

\* a handler without the test of generatedAccount.keystoreJson
ClickTestUnguarded(budget) ==
    /\ SectionsRendered
    /\ TestButtonEnabled
    /\ clicks < budget
    /\ HasFree(send)
    /\ clicks' = clicks + 1
    /\ isSendingExtrinsic' = TRUE
    /\ extrinsicResult' = Null
    /\ send' = [send EXCEPT ![FreeInst(send)] =
                   [IdleSend EXCEPT !.pc = "connecting",
                                    !.acct = generatedAccount,
                                    !.connects = 1, !.phase = "running"]]
    /\ UNCHANGED <<user, accessToken, driveFiles, loadingFiles, generatedAccount,
                   isGeneratingKeys, isSavingKeys, isFetchingKeys, drive, login,
                   refresh, gen, save, fetch, ex, loadedFrom>>

\* the click on Test Transaction; a run the guards turned away leaves the
\* record "refused" behind
ClickTest(budget) ==
    /\ SectionsRendered
    /\ TestButtonEnabled
    /\ clicks < budget
    /\ HasFree(send)
    /\ clicks' = clicks + 1
    /\ IF generatedAccount = Null \/ HasNoKeystore(generatedAccount)
       THEN /\ UNCHANGED <<isSendingExtrinsic, extrinsicResult>>
            /\ send' = [send EXCEPT ![FreeInst(send)] =
                          [IdleSend EXCEPT !.phase = "refused"]]
       ELSE /\ isSendingExtrinsic' = TRUE
            /\ extrinsicResult' = Null
            /\ send' = [send EXCEPT ![FreeInst(send)] =
                          [IdleSend EXCEPT !.pc = "connecting",
                                           !.acct = generatedAccount,
                                           !.connects = 1, !.phase = "running"]]
    /\ UNCHANGED <<user, accessToken, driveFiles, loadingFiles, generatedAccount,
                   isGeneratingKeys, isSavingKeys, isFetchingKeys, drive, login,
                   refresh, gen, save, fetch, ex, loadedFrom>>

\* the same without the finally block
SendCatchesKeepsBusy(i, message, cause) ==
    /\ extrinsicResult' = Failure(message)
    /\ UNCHANGED isSendingExtrinsic
    /\ send' = [send EXCEPT ![i] = Ended([send[i] EXCEPT
                                 !.cause = IF @ = "none" THEN cause ELSE @,
                                 !.sets = @ + 1])]

\* catch (error) { setExtrinsicResult({success: false, error}) } finally {...}
SendCatches(i, message, cause) ==
    /\ extrinsicResult' = Failure(message)
    /\ isSendingExtrinsic' = FALSE
    /\ send' = [send EXCEPT ![i] = Ended([send[i] EXCEPT
                                 !.cause = IF @ = "none" THEN cause ELSE @,
                                 !.sets = @ + 1])]

\* what the callback looked at in a status update
Flags(u) == [isInBlock |-> u.isInBlock, dispatchError |-> u.dispatchError]

\* setExtrinsicResult(result), then disconnectApi(api) is awaited
SendReports(i, result, cause, u, nUpdates) ==
    /\ extrinsicResult' = result
    /\ UNCHANGED isSendingExtrinsic
    /\ send' = [send EXCEPT ![i].pc = "disconnecting", ![i].settled = TRUE,
                            ![i].result = result, ![i].cause = cause,
                            ![i].reported = Len(u.events), ![i].last = Flags(u),
                            ![i].updates = nUpdates,
                            ![i].submits = 1,
                            ![i].sets = @ + 1,
                            ![i].disconnects = @ + 1]

\* initializePolkadotApi resolved; loadAccountFromKeystore is awaited next
ConnectOk(i) ==
    /\ send[i].pc = "connecting"
    /\ send' = [send EXCEPT ![i].pc = "loading", ![i].api = 1, ![i].loads = @ + 1]
    /\ UNCHANGED <<isSendingExtrinsic, extrinsicResult>>
    /\ SendUnchanged

\* a workflow that connects a second time before it gives up
ConnectFailRetries(i) ==
    /\ send[i].pc = "connecting"
    /\ IF send[i].connects < 2
       THEN /\ send' = [send EXCEPT ![i].connects = @ + 1]
            /\ UNCHANGED <<isSendingExtrinsic, extrinsicResult>>
       ELSE SendCatches(i, <<"Connection refused">>, "connect")
    /\ SendUnchanged

\* initializePolkadotApi rejected
ConnectFail(i) ==
    /\ send[i].pc = "connecting"
    /\ SendCatches(i, <<"Connection refused">>, "connect")
    /\ SendUnchanged

\* loadAccountFromKeystore returned the signer; getAccountBalance is awaited next
\* a workflow that reads the keystore from the page's state when it loads
\* the signer
LoadOkCurrentAccount(i) ==
    /\ send[i].pc = "loading"
    /\ LET loaded == loadAccountFromKeystore(generatedAccount.keystoreJson, SubmitPassword) IN
       /\ ~loaded.threw
       /\ send' = [send EXCEPT ![i].pc = "balance", ![i].pair = loaded.value,
                               ![i].balances = @ + 1]
    /\ UNCHANGED <<isSendingExtrinsic, extrinsicResult>>
    /\ SendUnchanged

LoadOk(i) ==
    /\ send[i].pc = "loading"
    /\ LET loaded == loadAccountFromKeystore(send[i].acct.keystoreJson, SubmitPassword) IN
       /\ ~loaded.threw
       /\ send' = [send EXCEPT ![i].pc = "balance", ![i].pair = loaded.value,
                               ![i].balances = @ + 1]
    /\ UNCHANGED <<isSendingExtrinsic, extrinsicResult>>
    /\ SendUnchanged

\* loadAccountFromKeystore threw
LoadFail(i) ==
    /\ send[i].pc = "loading"
    /\ LET loaded == loadAccountFromKeystore(send[i].acct.keystoreJson, SubmitPassword) IN
       /\ loaded.threw
       /\ SendCatches(i, loaded.error, "decrypt")
    /\ SendUnchanged

BalanceFail(i) ==
    /\ send[i].pc = "balance"
    /\ SendCatches(i, <<"Balance query failed">>, "balance")
    /\ SendUnchanged

\* balance.free as getAccountBalance reports it: the decimal string
FreeBalances == {<<"0">>, <<"5">>}

\* if (balance.free === "0") the two advisory toasts are shown
Advisory(free) == free = <<"0">>

\* a workflow that gives up on an empty account
BalanceOkSentBlocksZero(i) ==
    /\ send[i].pc = "balance"
    /\ \E free \in FreeBalances :
          IF free = <<"0">>
          THEN /\ extrinsicResult' = Failure(<<"Insufficient balance">>)
               /\ isSendingExtrinsic' = FALSE
               /\ send' = [send EXCEPT ![i] = Ended([send[i] EXCEPT
                                 !.free = free, !.advised = TRUE,
                                 !.cause = "balance", !.sets = @ + 1])]
          ELSE /\ send' = [send EXCEPT ![i].pc = "awaiting", ![i].free = free,
                                       ![i].advised = Advisory(free),
                                       ![i].submits = @ + 1]
               /\ UNCHANGED <<isSendingExtrinsic, extrinsicResult>>
    /\ SendUnchanged

\* the balance arrived; sendBalanceTransfer signs and sends, and the handler
\* awaits its promise
BalanceOkSent(i) ==
    /\ send[i].pc = "balance"
    /\ \E free \in FreeBalances :
          send' = [send EXCEPT ![i].pc = "awaiting", ![i].free = free,
                               ![i].advised = Advisory(free),
                               ![i].submits = @ + 1]
    /\ UNCHANGED <<isSendingExtrinsic, extrinsicResult>>
    /\ SendUnchanged

\* the balance arrived; building or sending the transfer threw synchronously,
\* which sendBalanceTransfer turns into a failure result
BalanceOkSubmitThrows(i) ==
    /\ send[i].pc = "balance"
    /\ \E free \in FreeBalances :
          /\ extrinsicResult' = Failure(<<"Cannot create transfer">>)
          /\ UNCHANGED isSendingExtrinsic
          /\ send' = [send EXCEPT ![i].pc = "disconnecting", ![i].settled = TRUE,
                                  ![i].result = Failure(<<"Cannot create transfer">>),
                                  ![i].cause = "submit",
                                  ![i].free = free, ![i].advised = Advisory(free),
                                  ![i].submits = 1,
                                  ![i].sets = @ + 1,
                                  ![i].disconnects = @ + 1]
    /\ SendUnchanged

\* a callback whose later updates replace the result already produced
StatusUpdateLastWins(i) ==
    /\ send[i].pc \in {"awaiting", "disconnecting"}
    /\ send[i].submits = 1
    /\ send[i].updates < MaxUpdates
    /\ \E u \in StatusUpdates :
          IF ResolutionOf(u) = Null
          THEN /\ send' = [send EXCEPT ![i].updates = @ + 1,
                                       ![i].last = IF send[i].settled THEN @
                                                   ELSE Flags(u)]
               /\ UNCHANGED <<isSendingExtrinsic, extrinsicResult>>
          ELSE /\ extrinsicResult' = ResolutionOf(u)
               /\ UNCHANGED isSendingExtrinsic
               /\ send' = [send EXCEPT ![i].pc = "disconnecting", ![i].settled = TRUE,
                                       ![i].result = ResolutionOf(u),
                                       ![i].cause = IF ResolutionOf(u).success
                                                    THEN "none" ELSE "dispatch",
                                       ![i].reported = Len(u.events),
                                       ![i].last = IF send[i].settled THEN @
                                                   ELSE Flags(u),
                                       ![i].late = IF send[i].settled THEN @ + 1 ELSE @,
                                       ![i].updates = @ + 1,
                                       ![i].sets = @ + 1,
                                       ![i].disconnects = IF send[i].settled THEN @
                                                          ELSE @ + 1]
    /\ SendUnchanged

\* the signAndSend callback runs for a status update; late counts the calls
\* of resolve made after the promise had settled
StatusUpdate(i) ==
    /\ send[i].pc \in {"awaiting", "disconnecting"}
    /\ send[i].submits = 1
    /\ send[i].updates < MaxUpdates
    /\ \E u \in StatusUpdates :
          IF send[i].settled \/ ResolutionOf(u) = Null
          THEN /\ send' = [send EXCEPT ![i].updates = @ + 1,
                                       ![i].last = IF send[i].settled THEN @
                                                   ELSE Flags(u),
                                       ![i].late = IF send[i].settled
                                                      /\ ResolutionOf(u) # Null
                                                   THEN @ + 1 ELSE @]
               /\ UNCHANGED <<isSendingExtrinsic, extrinsicResult>>
          ELSE SendReports(i, ResolutionOf(u),
                           IF ResolutionOf(u).success THEN "none" ELSE "dispatch",
                           u, send[i].updates + 1)
    /\ SendUnchanged

\* the promise signAndSend returned rejects: nobody handles it and the
\* sendBalanceTransfer promise stays pending
SignAndSendRejects(i) ==
    /\ send[i].pc = "awaiting"
    /\ send[i].updates = 0
    /\ send' = [send EXCEPT ![i].pc = "stranded"]
    /\ UNCHANGED <<isSendingExtrinsic, extrinsicResult>>
    /\ SendUnchanged

DisconnectOk(i) ==
    /\ send[i].pc = "disconnecting"
    /\ isSendingExtrinsic' = FALSE
    /\ send' = [send EXCEPT ![i] = Ended(send[i])]
    /\ UNCHANGED extrinsicResult
    /\ SendUnchanged

DisconnectFail(i) ==
    /\ send[i].pc = "disconnecting"
    /\ SendCatches(i, <<"Disconnect failed">>, "disconnect")
    /\ SendUnchanged

-----------------------------------------------------------------------------
(* lib/polkadotExtrinsics.ts: exampleSendTransactionFromKeystore, one call  *)
(* with arbitrary arguments                                                 *)

\* pc: "idle" (not called), the await it is suspended at, "returned" or
\* "threw"; pending: what the try / catch decided to return, delivered once
\* the finally block has run
IdleEx == [pc |-> "idle", keystoreJson |-> Null, password |-> AppPassword, api |-> 0,
           pair |-> Null, connects |-> 0, loads |-> 0, balances |-> 0, fees |-> 0,
           submits |-> 0, disconnects |-> 0, updates |-> 0, pending |-> Null,
           result |-> Null, loaded |-> Null]

\* keystore arguments: none, an object that is no keystore, a plaintext
\* account object, and keystores of every seed under every password
ExampleKeystores ==
    {Null, [address |-> Address(1)],
     generateSubstrateAccount(1, AccountName, AppPassword)}
    \cup {KeyringToJson(s, AccountName, p) : s \in Seeds, p \in Passwords}

ExUnchanged == UNCHANGED appVars

\* catch: the failure result is what will be returned; finally: disconnect
\* when a connection exists, otherwise return at once
\* a catch that returns at once, without the finally block
ExCatchesNoDisconnect(message) ==
    ex' = [ex EXCEPT !.pc = "returned", !.result = Failure(message)]

ExCatches(message) ==
    IF ex.api # 0
    THEN ex' = [ex EXCEPT !.pc = "disconnecting", !.pending = Failure(message),
                          !.disconnects = @ + 1]
    ELSE ex' = [ex EXCEPT !.pc = "returned", !.result = Failure(message)]

ExConnectOk ==
    /\ ex.pc = "connecting"
    /\ ex' = [ex EXCEPT !.pc = "loading", !.api = 1, !.loads = @ + 1]
    /\ ExUnchanged

ExConnectFail ==
    /\ ex.pc = "connecting"
    /\ ExCatches(<<"Connection refused">>)
    /\ ExUnchanged

\* loadAccountFromKeystore settles
ExLoad ==
    /\ ex.pc = "loading"
    /\ LET loaded == loadAccountFromKeystore(ex.keystoreJson, ex.password) IN
       IF loaded.threw
       THEN \E e \in {[ex EXCEPT !.loaded = loaded]} :
               IF e.api # 0
               THEN ex' = [e EXCEPT !.pc = "disconnecting",
                                    !.pending = Failure(loaded.error),
                                    !.disconnects = @ + 1]
               ELSE ex' = [e EXCEPT !.pc = "returned", !.result = Failure(loaded.error)]
       ELSE ex' = [ex EXCEPT !.pc = "balance", !.pair = loaded.value,
                             !.loaded = loaded, !.balances = @ + 1]
    /\ ExUnchanged

\* getAccountBalance resolved; the transfer is built and its fee estimated
ExBalanceOk ==
    /\ ex.pc = "balance"
    /\ ex' = [ex EXCEPT !.pc = "fee", !.fees = @ + 1]
    /\ ExUnchanged

ExBalanceFail ==
    /\ ex.pc = "balance"
    /\ ExCatches(<<"Balance query failed">>)
    /\ ExUnchanged

\* estimateTransactionFee resolved; sendBalanceTransfer signs and sends
ExFeeOk ==
    /\ ex.pc = "fee"
    /\ ex' = [ex EXCEPT !.pc = "awaiting", !.submits = @ + 1]
    /\ ExUnchanged

ExFeeFail ==
    /\ ex.pc = "fee"
    /\ ExCatches(<<"Fee estimation failed">>)
    /\ ExUnchanged

\* the signAndSend callback runs for a status update; the first resolution is
\* returned through the finally block
ExStatusUpdate ==
    /\ ex.pc \in {"awaiting", "disconnecting"}
    /\ ex.submits = 1
    /\ ex.updates < MaxUpdates
    /\ \E u \in StatusUpdates :
          IF ex.pc = "disconnecting" \/ ResolutionOf(u) = Null
          THEN ex' = [ex EXCEPT !.updates = @ + 1]
          ELSE ex' = [ex EXCEPT !.pc = "disconnecting", !.updates = @ + 1,
                                !.pending = ResolutionOf(u), !.disconnects = @ + 1]
    /\ ExUnchanged

ExSignAndSendRejects ==
    /\ ex.pc = "awaiting"
    /\ ex.updates = 0
    /\ ex' = [ex EXCEPT !.pc = "stranded"]
    /\ ExUnchanged

\* disconnectApi resolved: the function returns what the try / catch decided
ExDisconnectOk ==
    /\ ex.pc = "disconnecting"
    /\ ex' = [ex EXCEPT !.pc = "returned", !.result = ex.pending]
    /\ ExUnchanged

\* disconnectApi rejected inside finally: the rejection replaces the result
ExDisconnectFail ==
    /\ ex.pc = "disconnecting"
    /\ ex' = [ex EXCEPT !.pc = "threw"]
    /\ ExUnchanged

-----------------------------------------------------------------------------
(* Specifications *)

AppInit ==
    /\ user = Null
    /\ accessToken = 0
    /\ driveFiles = << >>
    /\ loadingFiles = FALSE
    /\ generatedAccount = Null
    /\ isGeneratingKeys = FALSE
    /\ isSavingKeys = FALSE
    /\ isFetchingKeys = FALSE
    /\ isSendingExtrinsic = FALSE
    /\ extrinsicResult = Null
    /\ drive \in InitialDrives
    /\ login = [i \in Inst |-> IdleLogin]
    /\ refresh = [i \in Inst |-> IdleRefresh]
    /\ gen = [i \in Inst |-> IdleGen]
    /\ save = [i \in Inst |-> IdleSave]
    /\ fetch = [i \in Inst |-> IdleFetch]
    /\ send = [i \in Inst |-> IdleSend]
    /\ clicks = 0
    /\ loadedFrom = 0

\* the page after load: nothing in flight
Init ==
    /\ AppInit
    /\ ex = IdleEx

Next ==
    \/ GoogleLoginSuccess(MaxAllClicks)
    \/ GoogleLoginError(MaxAllClicks)
    \/ \E i \in Inst : UserInfoOk(i)
    \/ \E i \in Inst : UserInfoFail(i)
    \/ \E i \in Inst : RefreshOk(i)
    \/ \E i \in Inst : RefreshFail(i)
    \/ handleLogout(MaxAllClicks)
    \/ ClickGenerate(MaxAllClicks)
    \/ \E i \in Inst : GenerateOk(i)
    \/ \E i \in Inst : GenerateFail(i)
    \/ ClickSave(MaxAllClicks)
    \/ \E i \in Inst : SaveUploadOk(i)
    \/ \E i \in Inst : SaveUploadFail(i)
    \/ \E i \in Inst : SaveRefreshOk(i)
    \/ \E i \in Inst : SaveRefreshFail(i)
    \/ ClickFetch(MaxAllClicks)
    \/ \E i \in Inst : FetchSearch1Ok(i)
    \/ \E i \in Inst : FetchSearch2Ok(i)
    \/ \E i \in Inst : FetchRequestFail(i)
    \/ \E i \in Inst : FetchDownloadOk(i)
    \/ ClickTest(MaxAllClicks)
    \/ \E i \in Inst : ConnectOk(i)
    \/ \E i \in Inst : ConnectFail(i)
    \/ \E i \in Inst : LoadOk(i)
    \/ \E i \in Inst : LoadFail(i)
    \/ \E i \in Inst : BalanceOkSent(i)
    \/ \E i \in Inst : BalanceOkSubmitThrows(i)
    \/ \E i \in Inst : BalanceFail(i)
    \/ \E i \in Inst : StatusUpdate(i)
    \/ \E i \in Inst : SignAndSendRejects(i)
    \/ \E i \in Inst : DisconnectOk(i)
    \/ \E i \in Inst : DisconnectFail(i)

Spec == Init /\ [][Next]_vars

\* a call of exampleSendTransactionFromKeystore with any arguments
ExampleInit ==
    /\ AppInit
    /\ \E k \in ExampleKeystores, p \in Passwords :
          ex = [IdleEx EXCEPT !.pc = "connecting", !.keystoreJson = k, !.password = p,
                              !.connects = 1]

ExampleNext ==
    \/ ExConnectOk
    \/ ExConnectFail
    \/ ExLoad
    \/ ExBalanceOk
    \/ ExBalanceFail
    \/ ExFeeOk
    \/ ExFeeFail
    \/ ExStatusUpdate
    \/ ExSignAndSendRejects
    \/ ExDisconnectOk
    \/ ExDisconnectFail

ExampleSpec == ExampleInit /\ [][ExampleNext]_vars

\* the session, shared by the sub-systems below
SessionNext(budget) ==
    \/ GoogleLoginSuccess(budget)
    \/ GoogleLoginError(budget)
    \/ \E i \in Inst : UserInfoOk(i)
    \/ \E i \in Inst : UserInfoFail(i)
    \/ \E i \in Inst : RefreshOk(i)
    \/ \E i \in Inst : RefreshFail(i)
    \/ handleLogout(budget)

\* the keystore lifecycle alone: Generate, Persist, Retrieve
KeysNext ==
    \/ SessionNext(MaxClicks)
    \/ ClickGenerate(MaxClicks)
    \/ \E i \in Inst : GenerateOk(i)
    \/ \E i \in Inst : GenerateFail(i)
    \/ ClickSave(MaxClicks)
    \/ \E i \in Inst : SaveUploadOk(i)
    \/ \E i \in Inst : SaveUploadFail(i)
    \/ \E i \in Inst : SaveRefreshOk(i)
    \/ \E i \in Inst : SaveRefreshFail(i)
    \/ ClickFetch(MaxClicks)
    \/ \E i \in Inst : FetchSearch1Ok(i)
    \/ \E i \in Inst : FetchSearch2Ok(i)
    \/ \E i \in Inst : FetchRequestFail(i)
    \/ \E i \in Inst : FetchDownloadOk(i)

KeysSpec == Init /\ [][KeysNext]_vars

\* the test-transaction workflow on accounts set by Generate or Retrieve
TxNext ==
    \/ SessionNext(MaxTxClicks)
    \/ ClickGenerate(MaxTxClicks)
    \/ \E i \in Inst : GenerateOk(i)
    \/ \E i \in Inst : GenerateFail(i)
    \/ ClickFetch(MaxTxClicks)
    \/ \E i \in Inst : FetchSearch1Ok(i)
    \/ \E i \in Inst : FetchSearch2Ok(i)
    \/ \E i \in Inst : FetchRequestFail(i)
    \/ \E i \in Inst : FetchDownloadOk(i)
    \/ ClickTest(MaxTxClicks)
    \/ \E i \in Inst : ConnectOk(i)
    \/ \E i \in Inst : ConnectFail(i)
    \/ \E i \in Inst : LoadOk(i)
    \/ \E i \in Inst : LoadFail(i)
    \/ \E i \in Inst : BalanceOkSent(i)
    \/ \E i \in Inst : BalanceOkSubmitThrows(i)
    \/ \E i \in Inst : BalanceFail(i)
    \/ \E i \in Inst : StatusUpdate(i)
    \/ \E i \in Inst : SignAndSendRejects(i)
    \/ \E i \in Inst : DisconnectOk(i)
    \/ \E i \in Inst : DisconnectFail(i)

TxSpec == Init /\ [][TxNext]_vars

\* every adapter call the workflow awaits is answered: the connection, the
\* signer, the balance and the disconnection settle one way or the other
\* (whether a submitted transfer is ever included is left to the chain)
TxFairness ==
    \A i \in Inst :
        /\ WF_vars(ConnectOk(i) \/ ConnectFail(i))
        /\ WF_vars(LoadOk(i) \/ LoadFail(i))
        /\ WF_vars(BalanceOkSent(i) \/ BalanceOkSubmitThrows(i) \/ BalanceFail(i))
        /\ WF_vars(DisconnectOk(i) \/ DisconnectFail(i))

FairTxSpec == TxSpec /\ TxFairness

\* the life of the account over a longer session on an empty store: sign in
\* and out, Generate, Persist and the test-transaction workflow.  Every
\* account here comes from Generate, whose keystore the workflow's passphrase
\* opens, so loading the signer has no failing outcome
AccountInit ==
    /\ AppInit
    /\ drive = << >>
    /\ ex = IdleEx

AccountNext ==
    \/ SessionNext(MaxAcctClicks)
    \/ ClickGenerate(MaxAcctClicks)
    \/ \E i \in Inst : GenerateOk(i)
    \/ \E i \in Inst : GenerateFail(i)
    \/ ClickSave(MaxAcctClicks)
    \/ \E i \in Inst : SaveUploadOk(i)
    \/ \E i \in Inst : SaveUploadFail(i)
    \/ \E i \in Inst : SaveRefreshOk(i)
    \/ \E i \in Inst : SaveRefreshFail(i)
    \/ ClickTest(MaxAcctClicks)
    \/ \E i \in Inst : ConnectOk(i)
    \/ \E i \in Inst : ConnectFail(i)
    \/ \E i \in Inst : LoadOk(i)
    \/ \E i \in Inst : BalanceOkSent(i)
    \/ \E i \in Inst : BalanceOkSubmitThrows(i)
    \/ \E i \in Inst : BalanceFail(i)
    \/ \E i \in Inst : StatusUpdate(i)
    \/ \E i \in Inst : SignAndSendRejects(i)
    \/ \E i \in Inst : DisconnectOk(i)
    \/ \E i \in Inst : DisconnectFail(i)

AccountSpec == AccountInit /\ [][AccountNext]_vars

-----------------------------------------------------------------------------
(* Claims *)

IsFailureResult(r) ==
    r # Null /\ ~r.success /\ Has(r, "error") /\ r.error # EmptyString

\* the run of instance i is over and left a failure behind
SettledFailure(i) ==
    /\ send[i].phase = "ended"
    /\ ~isSendingExtrinsic
    /\ IsFailureResult(extrinsicResult)

\* C1: a run of the test-transaction workflow that obtained a connection has
\* called disconnectApi on it exactly once by the time it ends (the busy flag
\* returns to false), on the success path and on every failure path
C1_DisconnectedExactlyOnce ==
    \A i \in Inst :
        /\ send[i].disconnects <= 1
        /\ (send[i].phase = "ended" /\ send[i].api # 0) => send[i].disconnects = 1

\* C2: the workflow settles as a failure (failure result with a message, busy
\* flag false) when connecting fails, when decrypting the keystore fails, and,
\* once the chain has reported a dispatch error, after the disconnection
C2_FailuresSettle ==
    /\ [][\A i \in Inst :
            (send[i].phase = "running" /\ send'[i].phase = "ended"
               /\ send'[i].cause \in {"connect", "decrypt", "dispatch"})
            => (~isSendingExtrinsic' /\ IsFailureResult(extrinsicResult'))]_vars
    /\ \A i \in Inst :
          (send[i].phase = "running" /\ send[i].cause = "dispatch")
             ~> SettledFailure(i)

\* C2 witness: the chain reported a dispatch error and the run, after the
\* disconnection, is settled as a failure
C2_Witness ==
    \E i \in Inst : send[i].cause = "dispatch" /\ SettledFailure(i)

\* C8: a success result in extrinsicResult is the result of a run, has a
\* non-empty transaction hash and block hash, and as many events as the
\* status update that settled the run carried
C8_SuccessResultComplete ==
    (extrinsicResult # Null /\ extrinsicResult.success) =>
        /\ extrinsicResult.hash # EmptyString
        /\ extrinsicResult.blockHash # EmptyString
        /\ \E i \in Inst :
              /\ send[i].result = extrinsicResult
              /\ Len(extrinsicResult.events) = send[i].reported

\* C8 witness: a success result with two events
C8_Witness ==
    /\ extrinsicResult # Null
    /\ extrinsicResult.success
    /\ Len(extrinsicResult.events) = 2

IsGenerated(account) ==
    \E s \in Seeds :
        account = generateSubstrateAccount(s, AccountName, GeneratePassword)

\* C9: a keystore written by generateSubstrateAccount under a passphrase opens
\* under that passphrase to an unlocked signer with the account's address; the
\* workflow's passphrase opens the keystore of every generated account, so no
\* run on a generated account ends in a decrypt failure
C9_KeystoreRoundTrip ==
    /\ \A s \in Seeds, p \in Passwords :
          LET account == generateSubstrateAccount(s, AccountName, p)
              loaded == loadAccountFromKeystore(account.keystoreJson, p) IN
          /\ ~loaded.threw
          /\ ~loaded.value.isLocked
          /\ loaded.value.address = account.address
    /\ \A i \in Inst :
          (send[i].acct # Null /\ IsGenerated(send[i].acct)) =>
              /\ ~loadAccountFromKeystore(send[i].acct.keystoreJson, SubmitPassword).threw
              /\ send[i].pair # Null =>
                    /\ ~send[i].pair.isLocked
                    /\ send[i].pair.address = send[i].acct.address

\* C9 witness: the signer of a just-generated account has been loaded
C9_Witness ==
    \E i \in Inst :
        /\ send[i].pc = "balance"
        /\ IsGenerated(send[i].acct)
        /\ send[i].pair.address = send[i].acct.address

ContainsMnemonic(content) ==
    /\ content.text = "json"
    /\ Has(content.value, "mnemonic")
    /\ content.value.mnemonic # EmptyString

PersistedFiles == {drive[k] : k \in {j \in DOMAIN drive : drive[j].by = "persist"}}

\* C3: no file uploaded by Persist contains a recovery phrase, whatever
\* sequence of Generate, Retrieve and Persist set the account it was taken from
C3_NoPhraseUploaded ==
    \A f \in PersistedFiles : ~ContainsMnemonic(f.content)

\* C4: when the account was set by Retrieve from a file that Persist wrote,
\* it has the address and the keystore of the account Persist was triggered
\* with, and an empty recovery phrase
C4_PersistRetrieveRoundTrip ==
    \A f \in PersistedFiles :
        loadedFrom = f.id =>
            /\ generatedAccount.address = f.from.address
            /\ generatedAccount.keystoreJson = f.from.keystoreJson
            /\ generatedAccount.mnemonic = EmptyString

\* C4 witness: the account was generated, persisted and retrieved again
C4_Witness ==
    \E f \in PersistedFiles :
        /\ loadedFrom = f.id
        /\ f.from.mnemonic # EmptyString
        /\ generatedAccount.address = f.from.address

\* C5: Retrieve downloads the first file of the last search it issued; it
\* issues the 'polkadot-account' search only after the 'polkadot-keystore'
\* search returned no file, and never otherwise
C5_CurrentPatternPreferred ==
    \A i \in Inst :
        /\ fetch[i].file # Null => fetch[i].file = fetch[i].found[1]
        /\ (Len(fetch[i].firstFound) > 0 /\ fetch[i].file # Null)
              => fetch[i].file = fetch[i].firstFound[1]
        /\ Len(fetch[i].firstFound) > 0 => fetch[i].searches = <<KeystorePattern>>
        /\ Len(fetch[i].searches) = 2
              => (fetch[i].answers >= 1 /\ fetch[i].firstFound = << >>
                  /\ fetch[i].searches = <<KeystorePattern, AccountPattern>>)
        /\ (fetch[i].outcome = "loaded" /\ loadedFrom # 0 /\ InFlight(fetch) = {})
              => loadedFrom = fetch[i].file.id

\* C5 witness: files of both patterns exist and the keystore file was loaded
C5_Witness ==
    \E i \in Inst :
        /\ fetch[i].outcome = "loaded"
        /\ fetch[i].searches = <<KeystorePattern>>
        /\ Contains(fetch[i].file.name, KeystorePattern[1])
        /\ \E k \in DOMAIN drive : Contains(drive[k].name, AccountPattern[1])

\* C6: when both searches of Retrieve are answered with no file, the run ends
\* as "not found": no download is requested, the handler ends normally with
\* isFetchingKeys false, and the step leaves generatedAccount unchanged
C6_NotFoundOutcome ==
    /\ [](\A i \in Inst :
            /\ (fetch[i].answers = 2 /\ fetch[i].found = << >>)
                  => (fetch[i].outcome = "notfound" /\ fetch[i].pc = "idle")
            /\ fetch[i].outcome = "notfound"
                  => (fetch[i].downloads = 0 /\ fetch[i].file = Null
                      /\ fetch[i].answers = 2 /\ fetch[i].found = << >>)
            /\ (fetch[i].outcome = "notfound" /\ InFlight(fetch) = {})
                  => ~isFetchingKeys)
    /\ [][\A i \in Inst :
            (fetch[i].outcome # "notfound" /\ fetch'[i].outcome = "notfound")
            => (generatedAccount' = generatedAccount /\ ~isFetchingKeys')]_vars

\* C6 witness: a Retrieve on a store without keystore files ended "not found"
\* and left an account, set before, in place
C6_Witness ==
    \E i \in Inst :
        /\ fetch[i].outcome = "notfound"
        /\ generatedAccount # Null
        /\ ~isFetchingKeys

\* C7: at most one instance of each of Generate, Persist, Retrieve and the
\* transaction workflow is in flight, its busy flag is set while it is, and
\* its control is disabled, so that no second adapter call is issued
C7_FlagGating ==
    /\ Cardinality(InFlight(gen)) <= 1
    /\ Cardinality(InFlight(save)) <= 1
    /\ Cardinality(InFlight(fetch)) <= 1
    /\ Cardinality(InFlight(send)) <= 1
    /\ InFlight(gen) # {} => (isGeneratingKeys /\ ~GenerateButtonEnabled)
    /\ InFlight(save) # {} => (isSavingKeys /\ ~SaveButtonEnabled)
    /\ InFlight(fetch) # {} => (isFetchingKeys /\ ~FetchButtonEnabled)
    /\ InFlight(send) # {} => (isSendingExtrinsic /\ ~TestButtonEnabled)

\* C7 witness: Generate is in flight on a rendered page and the user may
\* still click
C7_Witness ==
    /\ InFlight(gen) # {}
    /\ SectionsRendered
    /\ clicks < MaxAllClicks

IsKeystore(json) ==
    json # Null /\ Has(json, "encoded") /\ Has(json, "encoding") /\ Has(json, "address")

\* C10: loadAccountFromKeystore throws when the keystore is absent, is no
\* keystore, or was encrypted under another passphrase; a signer it returns
\* is unlocked; and after it threw, the run makes no second attempt and
\* issues neither the balance query nor the transfer
C10_LoadFailsOnBadInput ==
    ex.loaded # Null =>
        /\ ex.loads = 1
        /\ (~IsKeystore(ex.keystoreJson) => ex.loaded.threw)
        /\ (IsKeystore(ex.keystoreJson) /\ ex.keystoreJson.encoded.key # ex.password)
              => ex.loaded.threw
        /\ ex.loaded.threw
              => (ex.loaded.error # EmptyString /\ ex.pair = Null
                  /\ ex.balances = 0 /\ ex.submits = 0)
        /\ ~ex.loaded.threw
              => (~ex.loaded.value.isLocked /\ ex.pair = ex.loaded.value)

\* C10 witness: a keystore opened with the wrong passphrase, and the run
\* returned the failure
C10_Witness ==
    /\ ex.pc = "returned"
    /\ IsKeystore(ex.keystoreJson)
    /\ ex.keystoreJson.encoded.key # ex.password
    /\ ex.loaded # Null
    /\ ex.loaded.threw
    /\ ~ex.result.success

\* C11: whenever no login is being completed, the identity is present if and
\* only if the storage token is present, also after a failed userinfo lookup
C11_IdentityIffToken ==
    InFlight(login) = {} => ((user # Null) <=> (accessToken # 0))

\* C12: Generate calls the adapter only with an identity; the step that ends
\* a run clears isGeneratingKeys, replaces the account by the generated one
\* when the adapter succeeded and leaves it unchanged when the adapter failed;
\* no run starts while there is no identity
C12_GenerateOutcome ==
    /\ [](\A i \in Inst : gen[i].pc = "generating"
                             => (gen[i].usr # Null /\ isGeneratingKeys))
    /\ [][\A i \in Inst :
            /\ (gen[i].pc = "generating" /\ gen'[i].pc = "idle")
                  => /\ ~isGeneratingKeys'
                     /\ gen'[i].outcome = "failed"
                           => generatedAccount' = generatedAccount
                     /\ gen'[i].outcome = "generated"
                           => /\ generatedAccount' # Null
                              /\ generatedAccount'.mnemonic # EmptyString
                              /\ generatedAccount'.meta.name =
                                    gen[i].usr.name \o <<" Polkadot Account">>
                              /\ generatedAccount'.keystoreJson.encoded.key
                                    = GeneratePassword
            /\ (gen[i].pc = "idle" /\ gen'[i].pc = "generating") => user # Null]_vars

\* C12 witness: the adapter failed in a run started with an account present,
\* and the account is still there
C12_Witness ==
    \E i \in Inst :
        /\ gen[i].outcome = "failed"
        /\ generatedAccount # Null
        /\ ~isGeneratingKeys

\* C13: Persist runs only with an account and a token; the step in which the
\* upload fails leaves the remote store, the account and the displayed list
\* unchanged and clears isSavingKeys; a run whose upload succeeded wrote one
\* file and refreshed the list exactly once, a failed run never
C13_PersistOutcome ==
    /\ [](\A i \in Inst :
            /\ save[i].pc # "idle"
                  => (save[i].acct # Null /\ save[i].tok # 0 /\ isSavingKeys)
            /\ save[i].outcome = "saved" => save[i].refreshes = 1
            /\ save[i].outcome = "failed" => save[i].refreshes = 0
            /\ (save[i].outcome \in {"saved", "failed"} /\ InFlight(save) = {})
                  => ~isSavingKeys)
    /\ [][\A i \in Inst :
            /\ (save[i].pc # "idle" /\ save'[i].outcome = "failed")
                  => /\ drive' = drive
                     /\ generatedAccount' = generatedAccount
                     /\ driveFiles' = driveFiles
                     /\ ~isSavingKeys'
            /\ (save[i].pc = "uploading" /\ save'[i].pc = "refreshing")
                  => /\ Len(drive') = Len(drive) + 1
                     /\ Tail(drive') = drive
                     /\ drive'[1].name = save[i].fileName
                     /\ drive'[1].content = save[i].content
            /\ (save[i].pc = "idle" /\ save'[i].pc # "idle")
                  => (generatedAccount # Null /\ accessToken # 0)]_vars

\* C13 witness: one run of Persist wrote its file and refreshed the list
C13_Witness ==
    \E i \in Inst :
        /\ save[i].outcome = "saved"
        /\ save[i].refreshes = 1
        /\ PersistedFiles # {}
        /\ ~isSavingKeys

\* C14: a submission that has not yet stored a result runs with
\* isSendingExtrinsic set and a null result, and a submission that has ended
\* stored its result exactly once and left a result behind
C14_ResultSetOncePerSubmission ==
    \A i \in Inst :
        /\ (send[i].phase = "running" /\ send[i].sets = 0)
              => (isSendingExtrinsic /\ extrinsicResult = Null)
        /\ send[i].phase = "ended"
              => (send[i].sets = 1 /\ (InFlight(send) = {} => extrinsicResult # Null))

\* C15: per click the workflow issues connect, load, balance query and
\* transfer at most once each and in that order, a step only after every
\* earlier one succeeded, and a run that has ended issues nothing more
C15_LinearNoRetry ==
    /\ [](\A i \in Inst :
            /\ send[i].connects <= 1
            /\ send[i].submits <= send[i].balances
            /\ send[i].balances <= send[i].loads
            /\ send[i].loads <= send[i].connects
            /\ send[i].loads = 1 => send[i].api # 0
            /\ (send[i].balances = 1 /\ send[i].phase = "running")
                  => (send[i].pair # Null /\ ~send[i].pair.isLocked)
            /\ send[i].cause = "connect" => send[i].loads = 0
            /\ send[i].cause = "decrypt" => send[i].balances = 0
            /\ send[i].cause = "balance" => send[i].submits = 0
            /\ send[i].pc = "connecting" => send[i].loads = 0
            /\ send[i].pc = "loading" => send[i].balances = 0
            /\ send[i].pc = "balance" => send[i].submits = 0)
    /\ [][\A i \in Inst :
            /\ send[i].phase = "running"
                  => /\ send'[i].connects = send[i].connects
                     /\ send'[i].loads >= send[i].loads
                     /\ send'[i].balances >= send[i].balances
                     /\ send'[i].submits >= send[i].submits
            /\ (send[i].phase = "ended" /\ send'[i].phase = "ended")
                  => send'[i] = send[i]]_vars

\* C15 witness: a run that stopped at the failed balance query, after one
\* connect and one load and without a transfer
C15_Witness ==
    \E i \in Inst :
        /\ send[i].phase = "ended"
        /\ send[i].cause = "balance"
        /\ send[i].connects = 1 /\ send[i].loads = 1 /\ send[i].balances = 1
        /\ send[i].submits = 0

\* C16: once the balance query has answered, whatever the free balance, the
\* transfer has been submitted; the balance decides the advisory and nothing
\* else
C16_ZeroBalanceDoesNotBlock ==
    \A i \in Inst :
        /\ send[i].free # <<"unknown">>
              => /\ send[i].free \in FreeBalances
                 /\ send[i].submits = 1
                 /\ send[i].cause # "balance"
                 /\ send[i].advised <=> (send[i].free = <<"0">>)
        /\ (send[i].balances = 1 /\ send[i].pc # "balance" /\ send[i].cause # "balance")
              => send[i].free # <<"unknown">>

\* C16 witness: the account was empty, the advisory was shown, and the
\* transfer was submitted and included
C16_Witness ==
    \E i \in Inst :
        /\ send[i].free = <<"0">>
        /\ send[i].advised
        /\ send[i].submits = 1
        /\ send[i].result # Null
        /\ send[i].result.success

DecodedError ==
    <<"balances", ".", "InsufficientBalance", ": ", "Balance too low to send value.">>

\* C17: with last the latest status update delivered to an unsettled
\* submission: a dispatch error in it settled the submission as failure, with
\* the decoded description for a module error and the raw string otherwise,
\* whether or not it also reported inclusion; inclusion without a dispatch
\* error settled it as success; an update with neither left it unsettled
C17_StatusUpdateSettlement ==
    \A i \in Inst :
        send[i].last # Null =>
            /\ send[i].last.dispatchError = "module"
                  => (send[i].settled /\ send[i].result = Failure(DecodedError))
            /\ send[i].last.dispatchError = "other"
                  => (send[i].settled /\ send[i].result = Failure(<<"BadOrigin">>))
            /\ (send[i].last.dispatchError = "none" /\ send[i].last.isInBlock)
                  => (send[i].settled /\ send[i].result.success)
            /\ (send[i].last.dispatchError = "none" /\ ~send[i].last.isInBlock)
                  => (~send[i].settled /\ send[i].result = Null
                      /\ send[i].pc = "awaiting" /\ extrinsicResult = Null)
            /\ send[i].settled => extrinsicResult = send[i].result

\* C17 witness: one update reported both a module dispatch error and
\* inclusion in a block, and the submission is settled as failure
C17_Witness ==
    \E i \in Inst :
        /\ send[i].last = [isInBlock |-> TRUE, dispatchError |-> "module"]
        /\ send[i].settled
        /\ extrinsicResult = Failure(DecodedError)

\* the text Retrieve downloaded in the last run of instance i
Downloaded(i) == FileById(drive, fetch[i].file.id)[1].content

\* C18: an account loaded from a deprecated plaintext file comes from the
\* fallback parse, carries the file's recovery phrase, and the
\* plaintext-exposure warning was shown; an account loaded from an encrypted
\* keystore comes from the first parse and has no recovery phrase
C18_FallbackToDeprecatedFormat ==
    \A i \in Inst :
        (fetch[i].outcome = "loaded" /\ loadedFrom = fetch[i].file.id) =>
            IF ContainsMnemonic(Downloaded(i))
            THEN /\ fetch[i].format = "legacy"
                 /\ fetch[i].warned
                 /\ generatedAccount.mnemonic = Downloaded(i).value.mnemonic
            ELSE /\ fetch[i].format = "keystore"
                 /\ ~fetch[i].warned
                 /\ generatedAccount.mnemonic = EmptyString

\* C19: a handler whose adapter call failed has ended with its busy flag
\* cleared and a failure recorded: Generate and Retrieve after a rejected
\* call, and the workflow after any failed call, the rejection of the
\* transfer submission itself included
C19_AdapterFailuresCaught ==
    /\ \A i \in Inst :
          (gen[i].outcome = "failed" /\ InFlight(gen) = {}) => ~isGeneratingKeys
    /\ \A i \in Inst :
          (fetch[i].outcome = "failed" /\ InFlight(fetch) = {}) => ~isFetchingKeys
    /\ \A i \in Inst :
          (send[i].phase = "ended" /\ send[i].cause # "none" /\ InFlight(send) = {})
              => (~isSendingExtrinsic /\ IsFailureResult(extrinsicResult))
    /\ \A i \in Inst :
          send[i].pc = "stranded"
              => (~isSendingExtrinsic /\ IsFailureResult(extrinsicResult))

PersistOrWorkflowStep ==
    \E i \in Inst : save'[i] # save[i] \/ send'[i] # send[i]

C22_BusyFlagFollowsInstance ==
    /\ [](isGeneratingKeys <=> InFlight(gen) # {})
    /\ [](isSavingKeys <=> InFlight(save) # {})
    /\ [](isFetchingKeys <=> InFlight(fetch) # {})
    /\ [](isSendingExtrinsic <=> InFlight(send) # {})
    /\ \A i \in Inst :
          (send[i].pc \in {"disconnecting", "stranded"}) ~> ~isSendingExtrinsic

\* C23: the promise of sendBalanceTransfer settles once and only by
\* resolving: a settled run has a result, success or failure with a message,
\* and while that run goes on no later status update changes the result, the
\* events it reports or what the page shows
C23_PromiseSettlesOnce ==
    /\ [](\A i \in Inst :
            /\ send[i].settled
                  => (send[i].result # Null
                      /\ (send[i].result.success \/ IsFailureResult(send[i].result)))
            /\ (send[i].phase = "running" /\ ~send[i].settled)
                  => (send[i].result = Null /\ send[i].late = 0))
    /\ [][\A i \in Inst :
            (send[i].settled /\ send'[i].phase = "running")
                => /\ send'[i].settled
                   /\ send'[i].result = send[i].result
                   /\ send'[i].reported = send[i].reported
                   /\ extrinsicResult' = extrinsicResult]_vars

\* C23 witness: after the promise resolved with success, a later update with
\* a dispatch error or an inclusion called resolve again, and the result
\* stayed
C23_Witness ==
    \E i \in Inst :
        /\ send[i].settled
        /\ send[i].late >= 1
        /\ send[i].result.success
        /\ extrinsicResult = send[i].result

C25_ResultNotReplaced ==
    [][\A i \in Inst :
          (send[i].pc = "disconnecting" /\ send'[i].pc # "disconnecting")
             => /\ extrinsicResult' = send[i].result
                /\ (send[i].result.success => extrinsicResult'.success)]_vars

\* C26: a handler in flight issues a follow-up file-storage request (the
\* second search or the download of Retrieve, the list refresh of Persist)
\* only with the token the session currently holds, so none is issued with
\* the token of a session that has been logged out
C26_NoRequestWithOldToken ==
    [][\A i \in Inst :
          /\ (fetch'[i].pc \in {"search2", "downloading"} /\ fetch'[i].pc # fetch[i].pc)
                => fetch[i].tok = accessToken
          /\ (save[i].pc = "uploading" /\ save'[i].pc = "refreshing")
                => save[i].tok = accessToken]_vars

\* C27: whenever the session is unauthenticated (no identity and no token)
\* the file list is empty
C27_NoFilesWhenLoggedOut ==
    (user = Null /\ accessToken = 0) => driveFiles = << >>

\* C28: when a login's userinfo lookup completes after a logout has cleared
\* the session (the token is absent while the lookup is still awaited), the
\* identity stays absent and no file-list fetch is started
C28_LogoutWinsOverLookup ==
    [][\A i \in Inst :
          (login[i].pc = "userinfo" /\ accessToken = 0 /\ login'[i].pc = "idle")
             => (user' = Null /\ refresh' = refresh)]_vars

\* C29: every file Persist wrote is named 'polkadot-keystore-' followed by
\* the first 8 characters of the address of the account the page held when
\* Persist was triggered and contains that account's keystore document, also
\* when the account was replaced while the upload was in flight
C29_PersistUsesTriggerAccount ==
    /\ [](\A f \in PersistedFiles :
            LET pre == KeystorePattern \o <<"-">> \o Slice(f.from.address, 8) IN
            /\ Len(f.name) >= Len(pre)
            /\ SubSeq(f.name, 1, Len(pre)) = pre
            /\ Has(f.from, "keystoreJson")
                  => f.content = JsonStringify(f.from.keystoreJson))
    /\ [][\A i \in Inst :
            /\ (save[i].pc = "idle" /\ save'[i].pc = "uploading")
                  => save'[i].acct = generatedAccount
            /\ (save[i].pc = "uploading" /\ save'[i].pc = "refreshing")
                  => (drive'[1].by = "persist" /\ drive'[1].from = save[i].acct)]_vars

\* C29 witness: the upload resolved after the account had been replaced by
\* one with another address, and the file is the first account's
C29_Witness ==
    \E i \in Inst :
        /\ save[i].pc = "refreshing"
        /\ save[i].replaced
        /\ generatedAccount.address # save[i].acct.address
        /\ drive[1].by = "persist"
        /\ drive[1].from = save[i].acct
        /\ drive[1].content = JsonStringify(save[i].acct.keystoreJson)

====
